---- MODULE Spec2Model ----
(***************************************************************************)
(* A model of the Arbitrage Scout bot (scout.py): the eBay scraper with    *)
(* its price normalisation, the parser of the model's batched answer with  *)
(* the profit rule, the Discord notifier and the scout loop.               *)
(*                                                                         *)
(* Money: a listing price and every profit figure is an integer number of  *)
(* 1/100000 euro (Scale units per euro); a resale estimate of the oracle   *)
(* is an integer number of thousandths of a euro.                          *)
(***************************************************************************)
EXTENDS Integers, Sequences, FiniteSets, TLC

VARIABLES
    pc,             \* position of the scout thread: "idle", "scrape", "analyse", "notify", "sleep", "dead"
    hfToken,        \* os.getenv("HF_TOKEN") is non-empty
    webhookUrl,     \* os.getenv("DISCORD_WEBHOOK") is non-empty
    listings,       \* run_scout_cycle: listings
    profitable,     \* run_scout_cycle: profitable
    fetched,        \* number of page fetches (requests.get) of this cycle
    oracleCalls,    \* number of client.text_generation calls of this cycle
    oracleOutcome,  \* how the oracle call of this cycle ended
    sent,           \* the webhook.execute() calls of this cycle, in order
    notifiedBefore, \* item_urls for which a notification was dispatched in an earlier cycle
    inFlight,       \* number of run_scout_cycle activations that have not returned
    lastOutcome,    \* how the latest finished cycle ended
    sPage,          \* scraper run: the page's li.s-item elements
    sOut,           \* scraper run: the returned listings
    sPrices,        \* scraper run: the price read from each element (NoMatch where none was)
    sDone,          \* scraper run: scrape_ebay_listings has returned
    pListings,      \* parser run: the listings argument
    pRaw,           \* parser run: the model's answer
    pOut,           \* parser run: the result (a sequence of analyses, or Raised)
    pDone           \* parser run: _parse_batch_response has ended

loopVars   == <<pc, hfToken, webhookUrl, listings, profitable, fetched, oracleCalls,
                oracleOutcome, sent, notifiedBefore, inFlight, lastOutcome>>
scrapeVars == <<sPage, sOut, sPrices, sDone>>
parseVars  == <<pListings, pRaw, pOut, pDone>>
vars       == <<loopVars, scrapeVars, parseVars>>

\* ---------------------------------------------------------------- configuration

\* amounts are counted in 1/Scale euro
Scale == 100 * 1000
\* MAX_BUY_PRICE = 15.0
MAX_BUY_PRICE == 15 * Scale
\* MIN_NET_PROFIT = 10.0
MIN_NET_PROFIT == 10 * Scale
\* FEE_RATE = 0.15, in percent
FEE_PERCENT == 15
NUM_LISTINGS == 10

\* ---------------------------------------------------------------- bounds

\* longest generated price text
MaxTextLen == 4
\* most li.s-item elements on a page of mixed elements
MaxShortPage == 2
\* most elements on a page built to reach the cap
MaxLongPage == 11
\* most entries in the oracle's array, in a cycle of the loop
MaxEntries == 2
\* most entries in the oracle's array, in a run of the parser alone
MaxParseEntries == 3
\* the parser run's prices and resale estimates step over this many thousandths
MaxStep == 10

\* ---------------------------------------------------------------- price text

Digits == <<"0", "1", "2", "3", "4", "5", "6", "7", "8", "9">>

IsDigit(c) == \E i \in 1..10 : Digits[i] = c

DigitVal(c) == (CHOOSE i \in 1..10 : Digits[i] = c) - 1

RECURSIVE Pow10(_)
Pow10(n) == IF n = 0 THEN 1 ELSE 10 * Pow10(n - 1)

\* str.replace(old, ""): every occurrence of the character removed
StrRemove(s, old) == SelectSeq(s, LAMBDA c : c # old)

\* str.replace(old, new) on single characters
StrReplace(s, old, new) == [i \in 1..Len(s) |-> IF s[i] = old THEN new ELSE s[i]]

\* price_text.replace(".", "").replace(",", ".")
NormalisePriceText(text) == StrReplace(StrRemove(text, "."), ",", ".")

\* position of the leftmost digit of s at or after i, 0 when there is none
RECURSIVE FirstDigit(_, _)
FirstDigit(s, i) ==
    IF i > Len(s) THEN 0
    ELSE IF IsDigit(s[i]) THEN i
    ELSE FirstDigit(s, i + 1)

\* the end of the greedy run of digits of s starting at i (i - 1 when the run is empty)
RECURSIVE DigitRunEnd(_, _)
DigitRunEnd(s, i) ==
    IF i <= Len(s) /\ IsDigit(s[i]) THEN DigitRunEnd(s, i + 1) ELSE i - 1

\* int() of a sequence of digits
RECURSIVE DigitsValue(_)
DigitsValue(d) ==
    IF Len(d) = 0 THEN 0
    ELSE 10 * DigitsValue(SubSeq(d, 1, Len(d) - 1)) + DigitVal(d[Len(d)])

NoMatch == [found |-> FALSE, m |-> 0, e |-> 0]

\* re.search(r"([\d]+[.,]?\d*)", s) and float() of its group: the decimal number
\* m / 10^e, or NoMatch.  The group is the leftmost greedy run of digits, one
\* optional separator, and the greedy run of digits after it.
PriceSearch(s) ==
    LET p == FirstDigit(s, 1) IN
    IF p = 0 THEN NoMatch
    ELSE
        LET e1     == DigitRunEnd(s, p)
            hasSep == e1 + 1 <= Len(s) /\ s[e1 + 1] \in {".", ","}
            e2     == IF hasSep THEN DigitRunEnd(s, e1 + 2) ELSE e1
            whole  == SubSeq(s, p, e1)
            frac   == IF hasSep THEN SubSeq(s, e1 + 2, e2) ELSE <<>>
        IN  [found |-> TRUE, m |-> DigitsValue(whole \o frac), e |-> Len(frac)]

\* lines 125-131: the amount the scraper reads from a price text
ParsePrice(text) == PriceSearch(NormalisePriceText(text))

\* the decimal m / 10^e without trailing zeros in its fraction
RECURSIVE Canon(_)
Canon(v) ==
    IF v.found /\ v.e > 0 /\ v.m % 10 = 0
    THEN Canon([found |-> TRUE, m |-> v.m \div 10, e |-> v.e - 1])
    ELSE v

\* price <= 0 or price > MAX_BUY_PRICE, on the decimal m / 10^e
\* (the whole euros are compared first, so that no product leaves the integers)
PriceRejected(v) ==
    \/ v.m <= 0
    \/ v.m \div Pow10(v.e) > MAX_BUY_PRICE \div Scale
    \/ IF v.e <= 5 THEN v.m * Pow10(5 - v.e) > MAX_BUY_PRICE
                   ELSE v.m > MAX_BUY_PRICE * Pow10(v.e - 5)

\* the float as an amount in 1/Scale euro (exact up to five decimals, which the
\* price texts of the model do not exceed)
ToAmount(v) ==
    IF v.e <= 5 THEN v.m * Pow10(5 - v.e) ELSE v.m \div Pow10(v.e - 5)

\* ---------------------------------------------------------------- scraper

\* str.lower() on the titles of the model
Lower(t) ==
    CASE t = "Shop on eBay" -> "shop on ebay"
      [] t = "Ergebnisse"   -> "ergebnisse"
      [] t = "ERGEBNISSE"   -> "ergebnisse"
      [] t = "Lego Set"     -> "lego set"
      [] t = "Duplo"        -> "duplo"
      [] OTHER              -> t

\* line 118: the placeholder titles
Boilerplate == {"shop on ebay", "ergebnisse", ""}

TitleSkipped(item) == ~item.titleEl \/ Lower(item.title) \in Boilerplate

Listing(title, price, image_url, item_url) ==
    [title |-> title, price |-> price, image_url |-> image_url, item_url |-> item_url]

\* line 110: the cap test at the head of the loop
CapReached_off(ls) == Len(ls) > NUM_LISTINGS
CapReached(ls) == Len(ls) >= NUM_LISTINGS

\* lines 113-131: the price the loop body reads from one element, NoMatch when
\* the element is left before a price is matched
ItemPrice(item) ==
    IF TitleSkipped(item) \/ ~item.priceEl THEN NoMatch ELSE ParsePrice(item.priceText)

\* lines 113-147: the loop body on one li.s-item element
ScrapeItem(ls, item) ==
    LET v == ItemPrice(item) IN
    IF ~v.found THEN ls
    ELSE IF PriceRejected(v) THEN ls
    ELSE Append(ls, Listing(item.title, ToAmount(v), item.img,
                            IF item.linkEl THEN item.href ELSE ""))

\* lines 107-150: the loop over the elements, from element i on; prices collects
\* what ItemPrice gave for the elements the loop came to
RECURSIVE ScrapeFrom(_, _, _, _)
ScrapeFrom(items, i, ls, prices) ==
    IF i > Len(items) THEN [ls |-> ls, prices |-> prices]
    ELSE IF CapReached(ls) THEN [ls |-> ls, prices |-> prices]
    ELSE ScrapeFrom(items, i + 1, ScrapeItem(ls, items[i]),
                    Append(prices, ItemPrice(items[i])))

\* scrape_ebay_listings on a page that was fetched
ScrapePage(items) == ScrapeFrom(items, 1, <<>>, <<>>).ls

\* ---------------------------------------------------------------- oracle answer

\* One element of the decoded array.  obj: it is a JSON object; idOk: int() accepts
\* its "id" (absent counts as 0); resOk: float() accepts its "resale_price" (absent
\* counts as 0); resale in thousandths of a euro.
Entry(obj, idOk, id, resOk, resale) ==
    [obj |-> obj, idOk |-> idOk, id |-> id, resOk |-> resOk, resale |-> resale]

\* line 184: re.search(r"\[\s*\{.*\}\s*\]") finds the array in the answer: the
\* text has to open with "[{" and to close with "}]"
ArrayLocated(answer) ==
    \/ answer.kind = "badjson"
    \/ /\ answer.kind = "array"
       /\ Len(answer.entries) > 0
       /\ answer.entries[1].obj
       /\ answer.entries[Len(answer.entries)].obj

\* round(x, 2) of an amount: to the nearest cent, a tie to the even cent (on a
\* float the side a tie falls to depends on its binary expansion; no check rests
\* on a tie)
Round2(x) ==
    LET cent == Scale \div 100
        q    == x \div cent
        r    == x % cent
    IN  IF 2 * r > cent \/ (2 * r = cent /\ q % 2 = 1) THEN (q + 1) * cent ELSE q * cent

\* line 210: resale_price * (1 - FEE_RATE)
RevenueAfterFees(resale) == resale * (100 - FEE_PERCENT)

\* line 211: resale_price * FEE_RATE
Fees(resale) == resale * FEE_PERCENT

\* line 212
NetProfit(resale, price) == RevenueAfterFees(resale) - price

\* line 219
IsProfitable(net) == net >= MIN_NET_PROFIT

ProfitAnalysis(listing, resale) ==
    [listing      |-> listing,
     resale_price |-> resale,
     fees         |-> Round2(Fees(resale)),
     net_profit   |-> Round2(NetProfit(resale, listing.price))]

Returned(out) == [raised |-> FALSE, out |-> out]
Raised == [raised |-> TRUE, out |-> <<>>]

\* lines 197-228: the loop over the decoded entries, from entry i on
RECURSIVE ParseFrom(_, _, _, _)
ParseFrom(entries, ls, i, acc) ==
    IF i > Len(entries) THEN Returned(acc)
    ELSE LET entry == entries[i] IN
        IF ~entry.obj THEN Raised                  \* entry.get: AttributeError
        ELSE IF ~entry.idOk THEN Raised            \* int(): ValueError, TypeError
        ELSE IF entry.id - 1 < 0 \/ entry.id - 1 >= Len(ls)
             THEN ParseFrom(entries, ls, i + 1, acc)
        ELSE IF ~entry.resOk THEN Raised           \* float(): ValueError, TypeError
        ELSE IF entry.resale <= 0 THEN ParseFrom(entries, ls, i + 1, acc)
        ELSE IF IsProfitable(NetProfit(entry.resale, ls[entry.id].price))
             THEN ParseFrom(entries, ls, i + 1,
                            Append(acc, ProfitAnalysis(ls[entry.id], entry.resale)))
        ELSE ParseFrom(entries, ls, i + 1, acc)

\* _parse_batch_response(raw, listings)
ParseBatchResponse(answer, ls) ==
    IF ~ArrayLocated(answer) THEN Returned(<<>>)
    ELSE IF answer.kind = "badjson" THEN Returned(<<>>)
    ELSE ParseFrom(answer.entries, ls, 1, <<>>)

\* ---------------------------------------------------------------- inputs

SeqsUpTo(S, n) == UNION {[1..k -> S] : k \in 0..n}

\* one li.s-item element: its .s-item__title, its .s-item__price, the src of its
\* image and the href of its a.s-item__link, each present or not
Item(titleEl, title, priceEl, priceText, img, linkEl, href) ==
    [titleEl |-> titleEl, title |-> title, priceEl |-> priceEl, priceText |-> priceText,
     img |-> img, linkEl |-> linkEl, href |-> href]

ItemA == Item(TRUE, "Lego Set", TRUE, <<"5", ",", "0", "0", " ", "E", "U", "R">>, "img1", TRUE, "u1")
ItemB == Item(TRUE, "Duplo", TRUE, <<"1", "2", ",", "5", "0">>, "", TRUE, "u2")
ItemShop == Item(TRUE, "Shop on eBay", TRUE, <<"5", ",", "0", "0">>, "", TRUE, "u3")

\* the elements of the pages the loop fetches
LoopItems == {ItemA, ItemB, ItemShop}
LoopPages == SeqsUpTo(LoopItems, MaxShortPage)

\* the entries of the answers the loop receives
LoopEntries ==
    {Entry(FALSE, FALSE, 0, FALSE, 0), Entry(TRUE, FALSE, 0, TRUE, 20000)}
    \cup {Entry(TRUE, TRUE, id, FALSE, 0) : id \in 0..MaxShortPage}
    \cup {Entry(TRUE, TRUE, id, TRUE, r) : id \in 0..MaxShortPage, r \in {0, 20000}}

Answer(kind, entries) == [kind |-> kind, entries |-> entries]

LoopAnswers ==
    {Answer("text", <<>>), Answer("badjson", <<>>)}
    \cup {Answer("array", es) : es \in SeqsUpTo(LoopEntries, MaxEntries)}

\* ---------------------------------------------------------------- scout loop

CycleOutcomes ==
    {"none", "fetch_failed", "no_listings", "no_token", "oracle_failed", "no_profitable",
     "exception", "no_webhook", "notified", "notify_failed"}

Urls(sentSeq) == {sentSeq[i] : i \in 1..Len(sentSeq)}

\* line 334: if not listings
NoListings_never(ls) == FALSE
NoListings(ls) == Len(ls) = 0

\* lines 350-355: an exception out of run_scout_cycle is caught and printed, and
\* the loop goes on to its sleep
AfterUnhandled_dies == "dead"
AfterUnhandled == "sleep"

\* run_scout_cycle returns (or raises): the loop prints and sleeps
EndCycle(next, outcome) ==
    /\ pc' = next
    /\ inFlight' = inFlight - 1
    /\ lastOutcome' = outcome

\* lines 349-351: the loop calls run_scout_cycle
StartCycle ==
    /\ pc = "idle"
    /\ pc' = "scrape"
    /\ inFlight' = inFlight + 1
    /\ notifiedBefore' = notifiedBefore \cup Urls(sent)
    /\ listings' = <<>>
    /\ profitable' = <<>>
    /\ fetched' = 0
    /\ oracleCalls' = 0
    /\ oracleOutcome' = "none"
    /\ sent' = <<>>
    /\ UNCHANGED <<hfToken, webhookUrl, lastOutcome, scrapeVars, parseVars>>

\* lines 333-336 with scrape_ebay_listings (lines 93-150)
Scrape ==
    /\ pc = "scrape"
    /\ fetched' = fetched + 1
    /\ \/ /\ listings' = <<>>                       \* requests.RequestException
          /\ EndCycle("sleep", "fetch_failed")
       \/ \E page \in LoopPages :
            /\ listings' = ScrapePage(page)
            /\ IF NoListings(listings')
               THEN EndCycle("sleep", "no_listings")
               ELSE pc' = "analyse" /\ UNCHANGED <<inFlight, lastOutcome>>
    /\ UNCHANGED <<hfToken, webhookUrl, profitable, oracleCalls, oracleOutcome, sent,
                   notifiedBefore, scrapeVars, parseVars>>

\* lines 338-341 with analyse_all (lines 233-258)
Analyse ==
    /\ pc = "analyse"
    /\ \/ /\ ~hfToken                                \* lines 236-238
          /\ profitable' = <<>>
          /\ UNCHANGED <<oracleCalls, oracleOutcome>>
          /\ EndCycle("sleep", "no_token")
       \/ /\ hfToken                                 \* lines 251-253
          /\ \E failure \in {"transient", "permanent"} : oracleOutcome' = failure
          /\ oracleCalls' = oracleCalls + 1
          /\ profitable' = <<>>
          /\ EndCycle("sleep", "oracle_failed")
       \/ /\ hfToken                                 \* lines 255-258
          /\ oracleCalls' = oracleCalls + 1
          /\ oracleOutcome' = "answered"
          /\ \E answer \in LoopAnswers :
                LET r == ParseBatchResponse(answer, listings) IN
                IF r.raised
                THEN profitable' = <<>> /\ EndCycle(AfterUnhandled, "exception")
                ELSE /\ profitable' = r.out
                     /\ IF Len(r.out) = 0
                        THEN EndCycle("sleep", "no_profitable")
                        ELSE pc' = "notify" /\ UNCHANGED <<inFlight, lastOutcome>>
    /\ UNCHANGED <<hfToken, webhookUrl, listings, fetched, sent, notifiedBefore,
                   scrapeVars, parseVars>>

\* lines 343-344 with send_discord_notification (lines 262-323)
Notify ==
    /\ pc = "notify"
    /\ \/ /\ ~webhookUrl                             \* lines 265-267
          /\ sent' = sent
          /\ EndCycle("sleep", "no_webhook")
       \/ /\ webhookUrl                              \* lines 273-323
          /\ sent' = [i \in 1..Len(profitable) |-> profitable[i].listing.item_url]
          /\ \E allOk \in BOOLEAN :                   \* webhook.execute() may raise
                EndCycle("sleep", IF allOk THEN "notified" ELSE "notify_failed")
    /\ UNCHANGED <<hfToken, webhookUrl, listings, profitable, fetched, oracleCalls,
                   oracleOutcome, notifiedBefore, scrapeVars, parseVars>>

\* line 355: time.sleep(SCAN_INTERVAL_SECONDS) returns
EndSleep ==
    /\ pc = "sleep"
    /\ pc' = "idle"
    /\ UNCHANGED <<hfToken, webhookUrl, listings, profitable, fetched, oracleCalls,
                   oracleOutcome, sent, notifiedBefore, inFlight, lastOutcome,
                   scrapeVars, parseVars>>

ScrapeIdle == sPage = <<>> /\ sOut = <<>> /\ sPrices = <<>> /\ sDone = FALSE
ParseIdle  == pListings = <<>> /\ pRaw = Answer("text", <<>>) /\ pOut = Returned(<<>>) /\ pDone = FALSE

\* start_background_scout: the thread is started with the environment as it is
Init ==
    /\ pc = "idle"
    /\ hfToken \in BOOLEAN
    /\ webhookUrl \in BOOLEAN
    /\ listings = <<>>
    /\ profitable = <<>>
    /\ fetched = 0
    /\ oracleCalls = 0
    /\ oracleOutcome = "none"
    /\ sent = <<>>
    /\ notifiedBefore = {}
    /\ inFlight = 0
    /\ lastOutcome = "none"
    /\ ScrapeIdle
    /\ ParseIdle

Next ==
    \/ StartCycle
    \/ Scrape
    \/ Analyse
    \/ Notify
    \/ EndSleep

Spec == Init /\ [][Next]_vars

\* the scout thread is scheduled: a step that can be taken is taken
FairSpec == Spec /\ WF_vars(Next)

\* ---------------------------------------------------------------- scraper alone

LoopIdle ==
    /\ pc = "idle" /\ hfToken = TRUE /\ webhookUrl = TRUE /\ listings = <<>>
    /\ profitable = <<>> /\ fetched = 0 /\ oracleCalls = 0 /\ oracleOutcome = "none"
    /\ sent = <<>> /\ notifiedBefore = {} /\ inFlight = 0 /\ lastOutcome = "none"

TextChars == {"0", "1", "5", ".", ",", "x"}

ExampleTexts ==
    {<<"1", ".", "2", "3", "4", ",", "5", "6">>,
     <<"1", ",", "2", "3", "4", ".", "5", "6">>,
     <<"2", "9", ",", "9", "9", " ", "E", "U", "R">>,
     <<"1", "2", ".", "5", "0">>,
     <<"E", "U", "R", " ", "9", ",", "9", "9">>,
     <<"n", "o", " ", "d", "i", "g", "i", "t", "s">>}

PriceTexts == SeqsUpTo(TextChars, MaxTextLen) \cup ExampleTexts

MixedItems ==
    {ItemA, ItemB, ItemShop,
     Item(FALSE, "", TRUE, <<"5", ",", "0", "0">>, "", TRUE, "u4"),
     Item(TRUE, "", TRUE, <<"5", ",", "0", "0">>, "", TRUE, "u4"),
     Item(TRUE, "ERGEBNISSE", TRUE, <<"5", ",", "0", "0">>, "", TRUE, "u4"),
     Item(TRUE, "Duplo", FALSE, <<>>, "", TRUE, "u4"),
     Item(TRUE, "Duplo", TRUE, <<"1", "5", ",", "0", "0">>, "", TRUE, "u4"),
     Item(TRUE, "Duplo", TRUE, <<"1", "5", ",", "0", "1">>, "", TRUE, "u4"),
     Item(TRUE, "Duplo", TRUE, <<"0", ",", "0", "0">>, "", TRUE, "u4"),
     Item(TRUE, "Duplo", TRUE, <<"9", ",", "9", "9">>, "img2", FALSE, "")}

ScrapePages ==
    SeqsUpTo(MixedItems, MaxShortPage)
    \cup SeqsUpTo({ItemA, ItemShop}, MaxLongPage)
    \cup {<<Item(TRUE, "Lego Set", TRUE, t, "", TRUE, "u1")>> : t \in PriceTexts}

InitScrape ==
    /\ LoopIdle
    /\ ParseIdle
    /\ sPage \in ScrapePages
    /\ sOut = <<>>
    /\ sPrices = <<>>
    /\ sDone = FALSE

\* scrape_ebay_listings on the page sPage
DoScrape ==
    /\ ~sDone
    /\ LET r == ScrapeFrom(sPage, 1, <<>>, <<>>) IN
         sOut' = r.ls /\ sPrices' = r.prices
    /\ sDone' = TRUE
    /\ UNCHANGED <<sPage, loopVars, parseVars>>

NextScrape == DoScrape

SpecScrape == InitScrape /\ [][NextScrape]_vars

\* ---------------------------------------------------------------- parser alone

\* a listing at 7.000 euro plus k thousandths
StepListing(k) == Listing("Lego Set", (7000 + k) * (Scale \div 1000), "", "u1")

\* an answer of one entry for listing 1, at 19.990 euro plus k thousandths
StepAnswer(k) == Answer("array", <<Entry(TRUE, TRUE, 1, TRUE, 19990 + k)>>)

ListingA == ScrapePage(<<ItemA>>)[1]
ListingB == ScrapePage(<<ItemB>>)[1]

InitParse ==
    /\ LoopIdle
    /\ ScrapeIdle
    /\ \/ /\ pListings \in {<<StepListing(k)>> : k \in 0..MaxStep}
          /\ pRaw \in {StepAnswer(k) : k \in 0..MaxStep}
       \/ /\ pListings \in {<<ListingA>>, <<ListingA, ListingB>>}
          /\ pRaw \in {Answer("text", <<>>), Answer("badjson", <<>>)}
                 \cup {Answer("array", es) : es \in SeqsUpTo(LoopEntries, MaxParseEntries)}
    /\ pOut = Returned(<<>>)
    /\ pDone = FALSE

\* _parse_batch_response(pRaw, pListings)
DoParse ==
    /\ ~pDone
    /\ pOut' = ParseBatchResponse(pRaw, pListings)
    /\ pDone' = TRUE
    /\ UNCHANGED <<pListings, pRaw, loopVars, scrapeVars>>

NextParse == DoParse

SpecParse == InitParse /\ [][NextParse]_vars

\* ---------------------------------------------------------------- properties

\* C1: an item_url for which a notification was dispatched in one cycle is not
\* notified again in a later cycle.
C1_NeverNotifiedAgain ==
    \A i \in 1..Len(sent) : sent[i] \notin notifiedBefore

WellFormed(entry) == entry.obj /\ entry.idOk /\ entry.resOk

Refers(entry, ls) == WellFormed(entry) /\ entry.id \in 1..Len(ls) /\ entry.resale > 0

ReturnedFor(out, listing, resale) ==
    \E k \in 1..Len(out.out) :
        out.out[k].listing = listing /\ out.out[k].resale_price = resale

\* C2: for an entry that refers to a listing with resale_price > 0, the listing is
\* returned as profitable if and only if the net profit ROUNDED to two decimals,
\* round(resale_price * (1 - FEE_RATE) - price, 2), is at least MIN_NET_PROFIT.
C2_RoundedProfitDecides ==
    (pDone /\ pRaw.kind = "array" /\ ~pOut.raised) =>
        \A i \in 1..Len(pRaw.entries) :
            LET entry == pRaw.entries[i] IN
            Refers(entry, pListings) =>
                (ReturnedFor(pOut, pListings[entry.id], entry.resale)
                 <=> Round2(NetProfit(entry.resale, pListings[entry.id].price))
                        >= MIN_NET_PROFIT)

IsSeparator(c) == c \in {".", ","}

\* position of the rightmost separator of text, 0 when there is none
LastSeparator(text) ==
    IF \E i \in 1..Len(text) : IsSeparator(text[i])
    THEN CHOOSE i \in 1..Len(text) :
            IsSeparator(text[i]) /\ \A j \in (i + 1)..Len(text) : ~IsSeparator(text[j])
    ELSE 0

\* the amount read with the separator at position p as the decimal point and
\* every other separator as a thousands separator
DecimalAt(text, p) ==
    [found |-> TRUE,
     m |-> DigitsValue(SelectSeq(text, IsDigit)),
     e |-> Len(SelectSeq(SubSeq(text, p + 1, Len(text)), IsDigit))]

\* a price text with one numeral in it: the digits and separators stand together,
\* the numeral starts and ends with a digit and no two separators are adjacent
OneNumeral(text) ==
    LET isNum(c) == IsDigit(c) \/ IsSeparator(c)
        idx      == {i \in 1..Len(text) : isNum(text[i])}
    IN  /\ idx # {}
        /\ \A i, j \in idx : \A k \in i..j : k \in idx
        /\ \A i \in idx : IsSeparator(text[i]) =>
                (i - 1) \in idx /\ (i + 1) \in idx
                /\ IsDigit(text[i - 1]) /\ IsDigit(text[i + 1])

\* C3: the price normalisation reads the same amount under both conventions: with
\* both "." and "," in the text the rightmost one is the decimal point; a single
\* separator followed by exactly two digits is the decimal point; a text without
\* digits gives no price (the listing is skipped).
C3_PriceLocaleIndependent ==
    sDone =>
        \A i \in 1..Len(sPrices) :
            LET text  == sPage[i].priceText
                p     == LastSeparator(text)
                seps  == SelectSeq(text, IsSeparator)
                after == Len(SelectSeq(SubSeq(text, p + 1, Len(text)), IsDigit))
                both  == (\E k \in 1..Len(seps) : seps[k] = ".")
                         /\ (\E k \in 1..Len(seps) : seps[k] = ",")
            IN  (~TitleSkipped(sPage[i]) /\ sPage[i].priceEl) =>
                    /\ (FirstDigit(text, 1) = 0) => ~sPrices[i].found
                    /\ (OneNumeral(text) /\ (both \/ (Len(seps) = 1 /\ after = 2))) =>
                            Canon(sPrices[i]) = Canon(DecimalAt(text, p))

\* C4: a malformed entry of the array causes only that entry to be skipped: every
\* well-formed, actionable entry of the same answer is still returned.
C4_MalformedEntrySkippedAlone ==
    (pDone /\ pRaw.kind = "array"
           /\ \E j \in 1..Len(pRaw.entries) : ~WellFormed(pRaw.entries[j])) =>
        \A i \in 1..Len(pRaw.entries) :
            LET entry == pRaw.entries[i] IN
            (Refers(entry, pListings)
             /\ IsProfitable(NetProfit(entry.resale, pListings[entry.id].price))) =>
                ReturnedFor(pOut, pListings[entry.id], entry.resale)

\* C5: with HF_TOKEN or DISCORD_WEBHOOK missing a cycle is a no-op: no page fetch,
\* no oracle call, no notification.
C5_MissingCredentialNoOp ==
    (~hfToken \/ ~webhookUrl) => (fetched = 0 /\ oracleCalls = 0 /\ sent = <<>>)

\* C6: a cycle makes at most one oracle call, only after the fetch and extraction
\* of that cycle gave at least one listing, and none when extraction gave none.
C6_OneOracleCallAfterExtraction ==
    /\ oracleCalls <= 1
    /\ oracleCalls >= 1 => (fetched >= 1 /\ Len(listings) >= 1)
    /\ (pc \in {"analyse", "notify", "sleep"} /\ Len(listings) = 0) => oracleCalls = 0

C6_Witness ==
    /\ oracleCalls = 1
    /\ oracleOutcome = "answered"
    /\ Len(listings) >= 2
    /\ pc = "notify"

PassesFilters(item) ==
    /\ ~TitleSkipped(item)
    /\ item.priceEl
    /\ ParsePrice(item.priceText).found
    /\ ~PriceRejected(ParsePrice(item.priceText))

Min(a, b) == IF a <= b THEN a ELSE b

\* C7: scrape_ebay_listings returns at most NUM_LISTINGS listings, each with a
\* non-empty title that is no placeholder and a price p, 0 < p <= MAX_BUY_PRICE;
\* skipped elements do not count towards the cap: the result is made of the first
\* NUM_LISTINGS elements that pass the filters.
C7_ScrapeCappedAndFiltered ==
    sDone =>
        /\ Len(sOut) <= NUM_LISTINGS
        /\ \A i \in 1..Len(sOut) :
                /\ sOut[i].title # ""
                /\ Lower(sOut[i].title) \notin {"shop on ebay", "ergebnisse"}
                /\ sOut[i].price > 0
                /\ sOut[i].price <= MAX_BUY_PRICE
        /\ LET passing == SelectSeq(sPage, PassesFilters) IN
                /\ Len(sOut) = Min(NUM_LISTINGS, Len(passing))
                /\ \A i \in 1..Len(sOut) : sOut[i].title = passing[i].title

C7_Witness ==
    /\ sDone
    /\ Len(sOut) = NUM_LISTINGS
    /\ Len(sPage) > NUM_LISTINGS
    /\ \E i \in 1..NUM_LISTINGS : ~PassesFilters(sPage[i])

\* C8: an oracle call that fails with a transient failure is attempted again in
\* the same cycle before the listings are given up.
C8_TransientFailureRetried ==
    (pc = "sleep" /\ oracleOutcome = "transient") => oracleCalls > 1

\* C9: however a cycle ends, the loop goes on: a next cycle always eventually
\* starts, and it starts only when the previous one has finished, so that at most
\* one cycle is in flight.
C9_LoopNeverStops ==
    /\ [](inFlight <= 1)
    /\ [][pc' = "scrape" => (pc = "idle" /\ inFlight = 0)]_vars
    /\ []<>(pc = "scrape")
    /\ \A o \in CycleOutcomes \ {"none"} : (lastOutcome = o) ~> (pc = "scrape")

C9_Witness == pc = "scrape" /\ lastOutcome = "exception" /\ inFlight = 1

\* C10: within one cycle a listing triggers at most one notification, whatever
\* array the oracle returns.
C10_OneNotificationPerListing ==
    \A i, j \in 1..Len(sent) : i # j => sent[i] # sent[j]

====
